---- MODULE Spec2Model ----
(***************************************************************************)
(* A model of cmd/lambda_handler/main.go: the API Gateway adapter that     *)
(* turns an events.APIGatewayProxyRequest into a net/http request, serves  *)
(* it through a gorilla/mux router into the custom ResponseWriter and      *)
(* copies the captured state into an events.APIGatewayProxyResponse.       *)
(*                                                                         *)
(* Text that the code inspects character by character (paths, methods,     *)
(* header keys) is a sequence of chunks: a chunk is a separator ("/", "-", *)
(* " ") or a run of characters that holds no separator. Text that the code *)
(* only stores and copies (bodies, header values) is a TLA+ string.        *)
(***************************************************************************)
EXTENDS Naturals, Sequences, FiniteSets, TLC

\* ------------------------------------------------------------------ bounds

\* Longest inbound path, in chunks, of the exhaustive path set.
MaxPathLen == 4
\* Number of concurrent invocations of the concurrent specification.
NumInvocations == 2
\* Longest sequence of Write / WriteHeader calls of the shim specification.
MaxCalls == 4

\* ------------------------------------------------------- program constants

\* main.go:49, the status the ResponseWriter is created with.
StatusNotFound == 404
\* main.go:40, the status of the fixed answer when http.NewRequest fails.
StatusInternalServerError == 500
\* net/http StatusMovedPermanently: mux's redirects (reached from main.go:50).
StatusMovedPermanently == 301
\* net/http StatusMethodNotAllowed: mux's method mismatch (main.go:50).
StatusMethodNotAllowed == 405
\* ------------------------------------------------------------ text helpers

Slash == "/"

RECURSIVE Str(_)
\* The string a chunk sequence spells.
Str(p) == IF p = <<>> THEN "" ELSE Head(p) \o Str(Tail(p))

RECURSIVE SeqsUpTo(_, _)
\* All sequences over S of length at most n.
SeqsUpTo(S, n) ==
    IF n = 0 THEN {<<>>}
    ELSE LET shorter == SeqsUpTo(S, n - 1)
         IN  shorter \cup {Append(s, c) : s \in shorter, c \in S}

EmptyMap == [k \in {} |-> ""]

MapSet(m, k, v) == [x \in (DOMAIN m) \cup {k} |-> IF x = k THEN v ELSE m[x]]

RECURSIVE Split(_)
\* strings.Split(path, "/"): the segments between separators; there is always
\* one more segment than there are separators, so Split("") = [""].
Split(p) ==
    IF p = <<>> THEN << <<>> >>
    ELSE IF Head(p) = Slash THEN << <<>> >> \o Split(Tail(p))
    ELSE LET rest == Split(Tail(p))
         IN  << <<Head(p)>> \o Head(rest) >> \o Tail(rest)

RECURSIVE Join(_)
\* strings.Join(parts, "/").
Join(parts) ==
    IF parts = <<>> THEN <<>>
    ELSE IF Len(parts) = 1 THEN Head(parts)
    ELSE Head(parts) \o <<Slash>> \o Join(Tail(parts))

\* ---------------------------------------------------------- normalizePath

\* Variant: an off-by-one slice, parts[1:], which keeps the prefix segment.
normalizePath_KeepFirst(path) ==
    LET parts == Split(path)
    IN  IF Len(parts) > 2
        THEN <<Slash>> \o Join(SubSeq(parts, 2, Len(parts)))
        ELSE path

normalizePath(path) ==
    LET parts == Split(path)
    IN  IF Len(parts) > 2
        THEN <<Slash>> \o Join(SubSeq(parts, 3, Len(parts)))
        ELSE path

\* ------------------------------------------------- net/http: http.NewRequest

GET == <<"GET">>
POST == <<"POST">>

\* Chunks that are not HTTP token characters (net/http validMethod).
NotTokenChunks == {" ", Slash}

\* A chunk that is an invalid percent escape; url.Parse rejects it.
BadEscape == "%zz"

validMethod(m) ==
    /\ Len(m) > 0
    /\ \A i \in 1..Len(m) : m[i] \notin NotTokenChunks

\* Index of the first separator of p, or 0.
IndexSlash(p) ==
    IF \E i \in 1..Len(p) : p[i] = Slash
    THEN CHOOSE i \in 1..Len(p) : p[i] = Slash /\ \A j \in 1..(i - 1) : p[j] # Slash
    ELSE 0

HasPrefix(p, q) == Len(p) >= Len(q) /\ SubSeq(p, 1, Len(q)) = q

HasSuffixSlash(p) == Len(p) > 0 /\ p[Len(p)] = Slash

\* url.Parse(rawURL) for a URL with no scheme, query or fragment: a bad
\* percent escape is an error; a text that starts with exactly two slashes
\* carries an authority up to the next slash; anything else is all path.
urlParse(raw) ==
    IF \E i \in 1..Len(raw) : raw[i] = BadEscape
    THEN [err |-> TRUE, Host |-> <<>>, Path |-> <<>>]
    ELSE IF HasPrefix(raw, <<Slash, Slash>>) /\ ~HasPrefix(raw, <<Slash, Slash, Slash>>)
    THEN LET authority == SubSeq(raw, 3, Len(raw))
             i == IndexSlash(authority)
         IN  IF i = 0
             THEN [err |-> FALSE, Host |-> authority, Path |-> <<>>]
             ELSE [err |-> FALSE, Host |-> SubSeq(authority, 1, i - 1),
                   Path |-> SubSeq(authority, i, Len(authority))]
    ELSE [err |-> FALSE, Host |-> <<>>, Path |-> raw]

\* URL.String() of such a URL.
urlString(u) ==
    IF u.Host # <<>> THEN <<Slash, Slash>> \o u.Host \o u.Path ELSE u.Path

NoRequest == [Method |-> <<>>, URL |-> [Host |-> <<>>, Path |-> <<>>],
              Header |-> EmptyMap, Body |-> ""]

\* Variant: a constructor that treats an empty method or URL as an error.
NewRequest_RejectEmpty(method, url, body) ==
    LET u == urlParse(url)
    IN  IF ~validMethod(method) \/ url = <<>> \/ u.err
        THEN [err |-> TRUE, req |-> NoRequest]
        ELSE [err |-> FALSE,
              req |-> [Method |-> method, URL |-> [Host |-> u.Host, Path |-> u.Path],
                       Header |-> EmptyMap, Body |-> body]]

\* http.NewRequest(method, url, body): an empty method means GET; an invalid
\* method or an unparsable URL is an error.
NewRequest(method, url, body) ==
    LET m == IF method = <<>> THEN GET ELSE method
        u == urlParse(url)
    IN  IF ~validMethod(m) \/ u.err
        THEN [err |-> TRUE, req |-> NoRequest]
        ELSE [err |-> FALSE,
              req |-> [Method |-> m, URL |-> [Host |-> u.Host, Path |-> u.Path],
                       Header |-> EmptyMap, Body |-> body]]

\* --------------------------------------- net/textproto: canonical header key

UpperOf == [c \in {"a", "x"} |-> IF c = "a" THEN "A" ELSE "X"]
LowerOf == [c \in {"A", "X"} |-> IF c = "A" THEN "a" ELSE "x"]
Dash == "-"

upper(c) == IF c \in DOMAIN UpperOf THEN UpperOf[c] ELSE c
lower(c) == IF c \in DOMAIN LowerOf THEN LowerOf[c] ELSE c

\* textproto.CanonicalMIMEHeaderKey: a key holding a space is returned as it
\* is; otherwise the first letter and every letter after a hyphen are upper
\* case and the others lower case.
CanonicalMIMEHeaderKey(k) ==
    IF \E i \in 1..Len(k) : k[i] = " "
    THEN k
    ELSE [i \in 1..Len(k) |->
            IF i = 1 \/ k[i - 1] = Dash THEN upper(k[i]) ELSE lower(k[i])]

\* http.Header.Set(key, value).
HeaderSet(h, k, v) == MapSet(h, CanonicalMIMEHeaderKey(k), <<v>>)

\* ------------------------------------------------------------ gorilla/mux

RECURSIVE CleanStack(_, _)
\* path.Clean's walk over the segments of a rooted path.
CleanStack(segs, stack) ==
    IF segs = <<>> THEN stack
    ELSE LET s == Head(segs)
         IN  IF s = <<>> \/ s = <<".">> THEN CleanStack(Tail(segs), stack)
             ELSE IF s = <<"..">>
             THEN CleanStack(Tail(segs),
                             IF stack = <<>> THEN stack
                             ELSE SubSeq(stack, 1, Len(stack) - 1))
             ELSE CleanStack(Tail(segs), Append(stack, s))

\* path.Clean(p) for a rooted p.
pathClean(p) == <<Slash>> \o Join(CleanStack(Split(p), <<>>))

\* mux cleanPath(p).
cleanPath(p) ==
    IF p = <<>> THEN <<Slash>>
    ELSE LET q  == IF Head(p) # Slash THEN <<Slash>> \o p ELSE p
             np == pathClean(q)
         IN  IF HasSuffixSlash(q) /\ np # <<Slash>> THEN np \o <<Slash>> ELSE np

\* The route table of main.go:26-29, in registration order.
Routes ==
    << [tpl |-> <<Slash>>,          handler |-> "rootHandler",  methods |-> {GET}],
       [tpl |-> <<Slash, "test">>,  handler |-> "testHandler",  methods |-> {GET}],
       [tpl |-> <<Slash, "user">>,  handler |-> "userHandler",  methods |-> {GET, POST}],
       [tpl |-> <<Slash, "order">>, handler |-> "orderHandler", methods |-> {GET, POST}] >>

\* The path matcher of a route of a StrictSlash(true) router: the template
\* without its trailing slash, then an optional slash.
pathMatches(route, path) ==
    LET t == IF HasSuffixSlash(route.tpl)
             THEN SubSeq(route.tpl, 1, Len(route.tpl) - 1) ELSE route.tpl
    IN  path = t \/ path = t \o <<Slash>>

RECURSIVE Match(_, _, _)
\* Router.Match: the first route whose path and method match; a route whose
\* path matches and whose method does not leaves ErrMethodMismatch behind. A
\* matched route whose template and request path differ in the trailing
\* slash is served by a redirect handler (StrictSlash).
Match(routes, req, matchErr) ==
    IF routes = <<>>
    THEN [handler |-> IF matchErr = "ErrMethodMismatch"
                      THEN "methodNotAllowed" ELSE "NotFound",
          to |-> <<>>]
    ELSE LET r == Head(routes)
         IN  IF ~pathMatches(r, req.URL.Path) THEN Match(Tail(routes), req, matchErr)
             ELSE IF req.Method \notin r.methods
             THEN Match(Tail(routes), req, "ErrMethodMismatch")
             ELSE IF HasSuffixSlash(req.URL.Path) # HasSuffixSlash(r.tpl)
             THEN [handler |-> "Redirect",
                   to |-> urlString([Host |-> req.URL.Host,
                                     Path |-> IF HasSuffixSlash(req.URL.Path)
                                              THEN SubSeq(req.URL.Path, 1,
                                                          Len(req.URL.Path) - 1)
                                              ELSE req.URL.Path \o <<Slash>>])]
             ELSE [handler |-> r.handler, to |-> <<>>]

\* ------------------------------------------------------- ResponseWriter

\* The zero value of the struct (main.go:135-139).
ZeroResponseWriter == [StatusCode |-> 0, Headers |-> EmptyMap, Body |-> ""]

\* &ResponseWriter{Headers: map[string]string{}, StatusCode: 404} (main.go:49).
NewResponseWriter == [StatusCode |-> StatusNotFound, Headers |-> EmptyMap, Body |-> ""]

\* (rw *ResponseWriter) Header(): a new, empty http.Header on every call; it
\* is not rw.Headers and nothing keeps it.
Header(w) == EmptyMap

\* Variant: a Write that appends, as a buffered writer would.
Write_Append(w, b) == [w |-> [w EXCEPT !.Body = w.Body \o b], n |-> Len(b)]

\* (rw *ResponseWriter) Write(b): the body becomes string(b); returns len(b).
Write(w, b) == [w |-> [w EXCEPT !.Body = b], n |-> Len(b)]

\* (rw *ResponseWriter) WriteHeader(statusCode).
WriteHeader(w, statusCode) == [w EXCEPT !.StatusCode = statusCode]

\* ---------------------------------------- handlers, as the calls they make

CallHeader == [op |-> "Header", k |-> <<>>, v |-> "", code |-> 0, b |-> ""]
CallSet(key, value) == [op |-> "Set", k |-> key, v |-> value, code |-> 0, b |-> ""]
CallWriteHeader(c) == [op |-> "WriteHeader", k |-> <<>>, v |-> "", code |-> c, b |-> ""]
CallWrite(bytes) == [op |-> "Write", k |-> <<>>, v |-> "", code |-> 0, b |-> bytes]

ContentType == <<"Content", Dash, "Type">>
Location == <<"Location">>

\* json.NewEncoder(w).Encode(map[string]string{"message": msg}): one Write of
\* the compact encoding followed by a newline.
Encode(msg) == CallWrite("{\"message\":\"" \o msg \o "\"}\n")

\* w.Header().Set("Content-Type", "application/json"); json...Encode(response)
Respond(msg) == <<CallHeader, CallSet(ContentType, "application/json"), Encode(msg)>>

rootHandler(r) == Respond("Welcome to the root endpoint")

testHandler(r) == Respond("Hello from /test")

userHandler(r) ==
    IF r.Method = POST THEN Respond("User created") ELSE Respond("User endpoint")

orderHandler(r) ==
    IF r.Method = POST THEN Respond("Order created") ELSE Respond("Order endpoint")

\* Variant: a router that leaves the writer alone when nothing matches.
NotFound_Silent(r) == <<>>

\* http.NotFound, the handler mux falls back to: http.Error(w, "404 page not
\* found", 404).
NotFound(r) ==
    <<CallHeader,
      CallSet(ContentType, "text/plain; charset=utf-8"),
      CallSet(<<"X", Dash, "Content", Dash, "Type", Dash, "Options">>, "nosniff"),
      CallWriteHeader(StatusNotFound),
      CallWrite("404 page not found\n")>>

\* mux's methodNotAllowed handler.
methodNotAllowed(r) == <<CallWriteHeader(StatusMethodNotAllowed)>>

\* http.Redirect(w, r, url, 301), the StrictSlash redirect handler: a body
\* only for GET.
Redirect(r, url) ==
    <<CallHeader, CallSet(Location, Str(url))>>
    \o (IF r.Method = GET
        THEN <<CallSet(ContentType, "text/html; charset=utf-8")>> ELSE <<>>)
    \o <<CallWriteHeader(StatusMovedPermanently)>>
    \o (IF r.Method = GET
        THEN <<CallWrite("<a href=\"" \o Str(url) \o "\">Moved Permanently</a>.\n\n")>>
        ELSE <<>>)

\* (r *mux.Router) ServeHTTP(w, req), as the calls it makes on w: a path that
\* is not clean is redirected to its clean form; otherwise the matched
\* handler, the method-not-allowed handler or the not-found handler runs.
ServeHTTP(router, req) ==
    LET p == cleanPath(req.URL.Path)
    IN  IF p # req.URL.Path
        THEN <<CallHeader,
               CallSet(Location, Str(urlString([Host |-> req.URL.Host, Path |-> p]))),
               CallWriteHeader(StatusMovedPermanently)>>
        ELSE LET m == Match(router, req, "nil")
             IN  CASE m.handler = "rootHandler"  -> rootHandler(req)
                   [] m.handler = "testHandler"  -> testHandler(req)
                   [] m.handler = "userHandler"  -> userHandler(req)
                   [] m.handler = "orderHandler" -> orderHandler(req)
                   [] m.handler = "Redirect"     -> Redirect(req, m.to)
                   [] m.handler = "methodNotAllowed" -> methodNotAllowed(req)
                   [] OTHER -> NotFound(req)

\* ------------------------------------------------------------------ inputs

Methods == {<<>>, GET, POST, <<"DELETE">>, <<"G", " ", "T">>}

PathChunks == {Slash, "test", "user", "stage", BadEscape, ".."}

AllPaths == SeqsUpTo(PathChunks, MaxPathLen)

CorePaths ==
    { <<>>, <<Slash>>,
      <<Slash, "test">>, <<Slash, "user">>, <<Slash, "order">>,
      <<Slash, "stage", Slash, "test">>, <<Slash, "stage", Slash, "user">>,
      <<Slash, "stage", Slash, "order">>, <<Slash, "stage", Slash>>,
      <<Slash, "test", Slash>>, <<Slash, "stage", Slash, "order", Slash>>,
      <<Slash, "stage", Slash, "nope">>, <<Slash, "nope">>,
      <<Slash, "stage", Slash, BadEscape>> }

HeaderKeys == { <<"x", Dash, "a">>, <<"X", Dash, "A">>, <<"x", " ", "a">> }
HeaderValues == {"v1", "v2"}

HeaderMaps == UNION { [K -> HeaderValues] : K \in SUBSET HeaderKeys }

OneHeader == [k \in { <<"x", Dash, "a">> } |-> "v1"]

MkEvent(m, p, h, b) == [HTTPMethod |-> m, Path |-> p, Headers |-> h, Body |-> b]

\* Inbound events of the sequential specification: every method and header
\* mapping on the core paths, and every path of the bound under GET and POST.
SeqEvents ==
    { MkEvent(m, p, h, "") : m \in Methods, p \in CorePaths, h \in HeaderMaps }
    \cup { MkEvent(m, p, h, "") : m \in {GET, POST}, p \in AllPaths,
                                   h \in {EmptyMap, OneHeader} }

\* Inbound events of the concurrent specification.
ConcEvents ==
    { MkEvent(GET, <<Slash, "test">>, EmptyMap, "a"),
      MkEvent(GET, <<Slash, "test", Slash>>, EmptyMap, "b"),
      MkEvent(GET, <<Slash, "stage", Slash, "test", Slash>>, OneHeader, "c"),
      MkEvent(POST, <<Slash, "stage", Slash, "user">>, EmptyMap, "d"),
      MkEvent(POST, <<Slash, "stage", Slash, "test">>, EmptyMap, "e"),
      MkEvent(<<"G", " ", "T">>, <<Slash, "nope">>, EmptyMap, "f"),
      MkEvent(<<>>, <<Slash, "nope">>, EmptyMap, "g") }

\* ------------------------------------------------------------------- state

VARIABLES
    event,      \* invocation -> the inbound events.APIGatewayProxyRequest
    pc,         \* invocation -> its position in APIGatewayLambdaHandler
    router,     \* invocation -> the route table of its own mux.Router
    reqPath,    \* invocation -> reqPath (main.go:32)
    httpReq,    \* invocation -> httpReq (main.go:37)
    todo,       \* invocation -> header keys the range loop has not visited
    rw,         \* the ResponseWriter objects, by reference
    hdr,        \* invocation -> the http.Header the last w.Header() returned
    calls,      \* invocation -> calls the router and handler have yet to make
    response,   \* invocation -> the events.APIGatewayProxyResponse returned
    log,        \* invocation -> the records it has written to the log
    steps,      \* invocation -> the steps of the cycle it has taken, in order
    shim,       \* shim specification: the ResponseWriter under test
    history,    \* shim specification: the calls made on it, in order
    ret         \* shim specification: what the last Write returned

vars == <<event, pc, router, reqPath, httpReq, todo, rw, hdr, calls, response,
          log, steps, shim, history, ret>>

handlerVars == <<event, pc, router, reqPath, httpReq, todo, rw, hdr, calls,
                 response, log, steps>>

shimVars == <<shim, history, ret>>

Invocations == DOMAIN event

NoResponse == [StatusCode |-> 0, Headers |-> EmptyMap, Body |-> ""]

InitShim ==
    /\ shim = NewResponseWriter
    /\ history = <<>>
    /\ ret = 0

InitHandler(procs, events) ==
    /\ event \in [procs -> events]
    /\ pc = [i \in procs |-> "start"]
    /\ router = [i \in procs |-> <<>>]
    /\ reqPath = [i \in procs |-> <<>>]
    /\ httpReq = [i \in procs |-> NoRequest]
    /\ todo = [i \in procs |-> {}]
    /\ rw = [i \in procs |-> ZeroResponseWriter]
    /\ hdr = [i \in procs |-> EmptyMap]
    /\ calls = [i \in procs |-> <<>>]
    /\ response = [i \in procs |-> NoResponse]
    /\ log = [i \in procs |-> <<>>]
    /\ steps = [i \in procs |-> <<>>]

Init == InitHandler({1}, SeqEvents) /\ InitShim

InitConc == InitHandler(1..NumInvocations, ConcEvents) /\ InitShim

InitShimOnly == InitHandler({}, {}) /\ InitShim

\* -------------------------------------------------- APIGatewayLambdaHandler

Procs == 1..NumInvocations

\* Invocation i exists in this run and stands at position l.
At(i, l) == i \in Invocations /\ pc[i] = l

\* Variant: one package-level ResponseWriter used by every invocation.
ShimOf_Shared(i) == 1

\* The ResponseWriter invocation i works on: its own, allocated at main.go:49.
ShimOf(i) == i

\* logRequestDetails(req), main.go:20. json.MarshalIndent of a map of strings
\* and string maps cannot fail, so the record is always written. The log is
\* kept per invocation: lines of different invocations may interleave freely.
logRequestDetails(i) ==
    /\ At(i, "start")
    /\ log' = [log EXCEPT ![i] = Append(@, [kind |-> "request", event |-> event[i],
                                             response |-> NoResponse])]
    /\ steps' = [steps EXCEPT ![i] = Append(@, "Log-in")]
    /\ pc' = [pc EXCEPT ![i] = "router"]
    /\ UNCHANGED <<event, router, reqPath, httpReq, todo, rw, hdr, calls, response>>
    /\ UNCHANGED shimVars

\* mux.NewRouter().StrictSlash(true) and the four HandleFunc calls,
\* main.go:23-29.
NewRouter(i) ==
    /\ At(i, "router")
    /\ router' = [router EXCEPT ![i] = Routes]
    /\ pc' = [pc EXCEPT ![i] = "normalize"]
    /\ UNCHANGED <<event, reqPath, httpReq, todo, rw, hdr, calls, response, log, steps>>
    /\ UNCHANGED shimVars

\* reqPath := normalizePath(req.Path), main.go:32.
Normalize(i) ==
    /\ At(i, "normalize")
    /\ reqPath' = [reqPath EXCEPT ![i] = normalizePath(event[i].Path)]
    /\ pc' = [pc EXCEPT ![i] = "newreq"]
    /\ UNCHANGED <<event, router, httpReq, todo, rw, hdr, calls, response, log, steps>>
    /\ UNCHANGED shimVars

\* The fixed answer of main.go:40; its Headers field is left unset.
InternalServerError ==
    [StatusCode |-> StatusInternalServerError, Headers |-> EmptyMap,
     Body |-> "Internal Server Error"]

\* http.NewRequest succeeds, main.go:36-37.
NewRequestOk(i) ==
    /\ At(i, "newreq")
    /\ LET t == NewRequest(event[i].HTTPMethod, reqPath[i], event[i].Body)
       IN  /\ ~t.err
           /\ httpReq' = [httpReq EXCEPT ![i] = t.req]
    /\ todo' = [todo EXCEPT ![i] = DOMAIN event[i].Headers]
    /\ steps' = [steps EXCEPT ![i] = Append(@, "Translate")]
    /\ pc' = [pc EXCEPT ![i] = IF DOMAIN event[i].Headers = {} THEN "shim" ELSE "headers"]
    /\ UNCHANGED <<event, router, reqPath, rw, hdr, calls, response, log>>
    /\ UNCHANGED shimVars

\* http.NewRequest fails: the error is logged and the fixed 500 answer is
\* returned at once, main.go:38-41.
NewRequestErr(i) ==
    /\ At(i, "newreq")
    /\ NewRequest(event[i].HTTPMethod, reqPath[i], event[i].Body).err
    /\ log' = [log EXCEPT ![i] = Append(@, [kind |-> "error", event |-> event[i],
                                             response |-> NoResponse])]
    /\ response' = [response EXCEPT ![i] = InternalServerError]
    /\ steps' = [steps EXCEPT ![i] = @ \o <<"Translate", "Return">>]
    /\ pc' = [pc EXCEPT ![i] = "done"]
    /\ UNCHANGED <<event, router, reqPath, httpReq, todo, rw, hdr, calls>>
    /\ UNCHANGED shimVars

\* Variant: httpReq.Header[k] = []string{v}, which keeps the key as it is.
CopyHeader_Raw(i) ==
    /\ At(i, "headers")
    /\ \E k \in todo[i] :
        /\ httpReq' = [httpReq EXCEPT ![i].Header = MapSet(@, k, <<event[i].Headers[k]>>)]
        /\ todo' = [todo EXCEPT ![i] = @ \ {k}]
        /\ pc' = [pc EXCEPT ![i] = IF todo[i] = {k} THEN "shim" ELSE "headers"]
    /\ UNCHANGED <<event, router, reqPath, rw, hdr, calls, response, log, steps>>
    /\ UNCHANGED <<shim, history, ret>>

\* One iteration of the range loop over req.Headers, main.go:44-46; Go visits
\* the keys of a map in no fixed order.
CopyHeader(i) ==
    /\ At(i, "headers")
    /\ \E k \in todo[i] :
        /\ httpReq' = [httpReq EXCEPT ![i].Header = HeaderSet(@, k, event[i].Headers[k])]
        /\ todo' = [todo EXCEPT ![i] = @ \ {k}]
        /\ pc' = [pc EXCEPT ![i] = IF todo[i] = {k} THEN "shim" ELSE "headers"]
    /\ UNCHANGED <<event, router, reqPath, rw, hdr, calls, response, log, steps>>
    /\ UNCHANGED shimVars

\* rw := &ResponseWriter{...}, main.go:49.
NewShim(i) ==
    /\ At(i, "shim")
    /\ rw' = [rw EXCEPT ![ShimOf(i)] = NewResponseWriter]
    /\ pc' = [pc EXCEPT ![i] = "serve"]
    /\ UNCHANGED <<event, router, reqPath, httpReq, todo, hdr, calls, response, log, steps>>
    /\ UNCHANGED shimVars

\* r.ServeHTTP(rw, httpReq) is entered, main.go:50: the router picks what runs.
Dispatch(i) ==
    /\ At(i, "serve")
    /\ calls' = [calls EXCEPT ![i] = ServeHTTP(router[i], httpReq[i])]
    /\ steps' = [steps EXCEPT ![i] = Append(@, "Dispatch")]
    /\ pc' = [pc EXCEPT ![i] = IF ServeHTTP(router[i], httpReq[i]) = <<>>
                                THEN "respond" ELSE "calls"]
    /\ UNCHANGED <<event, router, reqPath, httpReq, todo, rw, hdr, response, log>>
    /\ UNCHANGED shimVars

AfterCall(i) ==
    /\ calls' = [calls EXCEPT ![i] = Tail(@)]
    /\ pc' = [pc EXCEPT ![i] = IF Len(calls[i]) = 1 THEN "respond" ELSE "calls"]
    /\ UNCHANGED <<event, router, reqPath, httpReq, todo, response, log, steps>>
    /\ UNCHANGED shimVars

\* The running handler calls w.Header().
DoHeader(i) ==
    /\ At(i, "calls") /\ Head(calls[i]).op = "Header"
    /\ hdr' = [hdr EXCEPT ![i] = Header(rw[ShimOf(i)])]
    /\ UNCHANGED rw
    /\ AfterCall(i)

\* The running handler calls Set on the http.Header it was given.
DoSet(i) ==
    /\ At(i, "calls") /\ Head(calls[i]).op = "Set"
    /\ hdr' = [hdr EXCEPT ![i] = HeaderSet(@, Head(calls[i]).k, Head(calls[i]).v)]
    /\ UNCHANGED rw
    /\ AfterCall(i)

\* The running handler calls w.WriteHeader(code).
DoWriteHeader(i) ==
    /\ At(i, "calls") /\ Head(calls[i]).op = "WriteHeader"
    /\ rw' = [rw EXCEPT ![ShimOf(i)] = WriteHeader(@, Head(calls[i]).code)]
    /\ UNCHANGED hdr
    /\ AfterCall(i)

\* The running handler calls w.Write(b).
DoWrite(i) ==
    /\ At(i, "calls") /\ Head(calls[i]).op = "Write"
    /\ rw' = [rw EXCEPT ![ShimOf(i)] = Write(@, Head(calls[i]).b).w]
    /\ UNCHANGED hdr
    /\ AfterCall(i)

\* response := events.APIGatewayProxyResponse{...}, main.go:53-57.
BuildResponse(i) ==
    /\ At(i, "respond")
    /\ response' = [response EXCEPT ![i] =
                      [StatusCode |-> rw[ShimOf(i)].StatusCode,
                       Headers |-> rw[ShimOf(i)].Headers,
                       Body |-> rw[ShimOf(i)].Body]]
    /\ steps' = [steps EXCEPT ![i] = Append(@, "Translate-back")]
    /\ pc' = [pc EXCEPT ![i] = "logout"]
    /\ UNCHANGED <<event, router, reqPath, httpReq, todo, rw, hdr, calls, log>>
    /\ UNCHANGED shimVars

\* Variant: the response is not logged.
LogResponse_Skip(i) ==
    /\ At(i, "logout")
    /\ steps' = [steps EXCEPT ![i] = Append(@, "Log-out")]
    /\ pc' = [pc EXCEPT ![i] = "return"]
    /\ UNCHANGED <<event, router, reqPath, httpReq, todo, rw, hdr, calls, response, log>>
    /\ UNCHANGED <<shim, history, ret>>

\* log.Printf("Response: %+v\n", response), main.go:60.
LogResponse(i) ==
    /\ At(i, "logout")
    /\ log' = [log EXCEPT ![i] = Append(@, [kind |-> "response", event |-> event[i],
                                             response |-> response[i]])]
    /\ steps' = [steps EXCEPT ![i] = Append(@, "Log-out")]
    /\ pc' = [pc EXCEPT ![i] = "return"]
    /\ UNCHANGED <<event, router, reqPath, httpReq, todo, rw, hdr, calls, response>>
    /\ UNCHANGED shimVars

\* return response, nil, main.go:62.
Return(i) ==
    /\ At(i, "return")
    /\ steps' = [steps EXCEPT ![i] = Append(@, "Return")]
    /\ pc' = [pc EXCEPT ![i] = "done"]
    /\ UNCHANGED <<event, router, reqPath, httpReq, todo, rw, hdr, calls, response, log>>
    /\ UNCHANGED shimVars

APIGatewayLambdaHandler(i) ==
    \/ logRequestDetails(i)
    \/ NewRouter(i)
    \/ Normalize(i)
    \/ NewRequestOk(i)
    \/ NewRequestErr(i)
    \/ CopyHeader(i)
    \/ NewShim(i)
    \/ Dispatch(i)
    \/ DoHeader(i)
    \/ DoSet(i)
    \/ DoWriteHeader(i)
    \/ DoWrite(i)
    \/ BuildResponse(i)
    \/ LogResponse(i)
    \/ Return(i)

Next == \E i \in Procs : APIGatewayLambdaHandler(i)

\* One invocation at a time, over every inbound event of the bounds.
Spec == Init /\ [][Next]_vars

\* Concurrent invocations (lambda.Start may run several, and the listener
\* serves each connection on its own goroutine).
SpecConc == InitConc /\ [][Next]_vars

\* ------------------------------------------- the ResponseWriter on its own

ShimBodies == {"", "ab", "cde"}
ShimCodes == {200, StatusNotFound, StatusInternalServerError}

ShimWrite(b) ==
    /\ Len(history) < MaxCalls
    /\ shim' = Write(shim, b).w
    /\ ret' = Write(shim, b).n
    /\ history' = Append(history, CallWrite(b))
    /\ UNCHANGED handlerVars

ShimWriteHeader(c) ==
    /\ Len(history) < MaxCalls
    /\ shim' = WriteHeader(shim, c)
    /\ history' = Append(history, CallWriteHeader(c))
    /\ UNCHANGED ret
    /\ UNCHANGED handlerVars

NextShim ==
    \/ \E b \in ShimBodies : ShimWrite(b)
    \/ \E c \in ShimCodes : ShimWriteHeader(c)

SpecShim == InitShimOnly /\ [][NextShim]_vars

\* ------------------------------------------------------- claims: helpers

Done(i) == pc[i] = "done"

Dispatched(i) == \E n \in 1..Len(steps[i]) : steps[i][n] = "Dispatch"

IsPrefix(s, t) == Len(s) <= Len(t) /\ SubSeq(t, 1, Len(s)) = s

Envelope(code, body) == [StatusCode |-> code, Headers |-> EmptyMap, Body |-> body]

\* The route table as spec section 6 documents it: method, path, message.
Documented ==
    { <<GET,  <<Slash>>,          "Welcome to the root endpoint">>,
      <<GET,  <<Slash, "test">>,  "Hello from /test">>,
      <<GET,  <<Slash, "user">>,  "User endpoint">>,
      <<POST, <<Slash, "user">>,  "User created">>,
      <<GET,  <<Slash, "order">>, "Order endpoint">>,
      <<POST, <<Slash, "order">>, "Order created">> }

RoutePaths == { d[2] : d \in Documented }

\* The documented JSON object, in encoding/json's compact form.
DocumentedBody(msg) == "{\"message\":\"" \o msg \o "\"}\n"

\* Invocation i's event asks for the documented route d.
Asks(i, d) == event[i].HTTPMethod = d[1] /\ normalizePath(event[i].Path) = d[2]

\* ---------------------------------------------------------------------- C1

\* C1: a well-formed event whose method and normalized path are a route of
\* the table is answered with StatusCode 200 and that route's JSON message.
C1_RouteReturns200 ==
    \A i \in Invocations : \A d \in Documented :
        (Done(i) /\ Asks(i, d)) =>
            /\ response[i].StatusCode = 200
            /\ response[i].Body = DocumentedBody(d[3])

\* ---------------------------------------------------------------------- C2

\* The URL path of i's request is clean and is no route path, with or
\* without a trailing slash.
Unrouted(i) ==
    LET p == httpReq[i].URL.Path
    IN  /\ Len(p) >= 2
        /\ p[1] = Slash
        /\ \A n \in 1..Len(Split(p)) : Split(p)[n] \notin {<<".">>, <<"..">>}
        /\ \A n \in 1..(Len(p) - 1) : ~(p[n] = Slash /\ p[n + 1] = Slash)
        /\ \A q \in RoutePaths : p # q /\ p # q \o <<Slash>>

\* C2 as stated: a request the router matches to no route is answered with
\* the shim's untouched default, since the router never calls the shim on a
\* non-match: 404, no headers, empty body.
C2_UnmatchedUntouched ==
    \A i \in Invocations :
        (Done(i) /\ Dispatched(i) /\ Unrouted(i))
            => response[i] = Envelope(StatusNotFound, "")

\* C2 as amended: a dispatched request whose URL path is clean and matches
\* no route is answered by the router's not-found handler, which does call
\* the shim: 404, no headers, body "404 page not found\n".
C2_UnmatchedNotFoundBody ==
    \A i \in Invocations :
        (Done(i) /\ Dispatched(i) /\ Unrouted(i))
            => response[i] = Envelope(StatusNotFound, "404 page not found\n")

C2_Witness ==
    \E i \in Invocations :
        /\ Done(i) /\ Dispatched(i) /\ Unrouted(i)
        /\ event[i].Path = <<Slash, "stage", Slash, "nope">>
        /\ response[i].Body = "404 page not found\n"

\* ---------------------------------------------------------------------- C3

\* C3: the answer to a request that matches a registered route carries the
\* header Content-Type = application/json.
C3_ContentTypeJSON ==
    \A i \in Invocations : \A d \in Documented :
        (Done(i) /\ Asks(i, d)) =>
            /\ ContentType \in DOMAIN response[i].Headers
            /\ response[i].Headers[ContentType] = "application/json"

\* ---------------------------------------------------------------------- C4

\* C4 as stated: an event whose HTTPMethod or Path is empty is answered with
\* 500 "Internal Server Error" and is never dispatched.
C4_AbsentYields500 ==
    \A i \in Invocations :
        (Done(i) /\ (event[i].HTTPMethod = <<>> \/ event[i].Path = <<>>))
            => (response[i] = InternalServerError /\ ~Dispatched(i))

\* The method holds a character that is no token character, or the
\* normalized path holds an invalid percent escape.
Unbuildable(i) ==
    \/ \E n \in 1..Len(event[i].HTTPMethod) : event[i].HTTPMethod[n] \in {" ", Slash}
    \/ \E n \in 1..Len(reqPath[i]) : reqPath[i][n] = BadEscape

\* C4 as amended: exactly the events http.NewRequest rejects (an invalid
\* method, an unparsable path) are answered with 500 "Internal Server Error"
\* and never dispatched; an empty method is served as GET and an empty path
\* is dispatched.
C4_RejectedYields500 ==
    \A i \in Invocations :
        Done(i) =>
            /\ Unbuildable(i) <=> response[i] = InternalServerError
            /\ Unbuildable(i) <=> ~Dispatched(i)

C4_Witness ==
    \E i \in Invocations :
        /\ Done(i) /\ Unbuildable(i)
        /\ event[i].HTTPMethod = GET
        /\ response[i] = InternalServerError
        /\ ~Dispatched(i)

\* ---------------------------------------------------------------------- C5

RECURSIVE ApplyCalls(_, _)
\* The calls of a handler made one after the other on one ResponseWriter.
ApplyCalls(w, cs) ==
    IF cs = <<>> THEN w
    ELSE LET c == Head(cs)
         IN  ApplyCalls(CASE c.op = "Write" -> Write(w, c.b).w
                          [] c.op = "WriteHeader" -> WriteHeader(w, c.code)
                          [] OTHER -> w,
                        Tail(cs))

\* What an invocation that runs alone returns for event ev.
Alone(ev) ==
    LET t == NewRequest(ev.HTTPMethod, normalizePath(ev.Path), ev.Body)
    IN  IF t.err THEN InternalServerError
        ELSE LET w == ApplyCalls(NewResponseWriter, ServeHTTP(Routes, t.req))
             IN  [StatusCode |-> w.StatusCode, Headers |-> w.Headers, Body |-> w.Body]

\* C5: under every interleaving, each invocation returns what it would
\* return running alone on its own event.
C5_Isolation ==
    \A i \in Invocations : Done(i) => response[i] = Alone(event[i])

C5_Witness ==
    \E i, j \in Invocations :
        /\ i # j
        /\ Done(i) /\ Dispatched(i)
        /\ pc[j] = "respond"
        /\ rw[ShimOf(j)].Body # ""
        /\ response[i].Body # ""
        /\ rw[ShimOf(j)].Body # response[i].Body

\* ---------------------------------------------------------------------- C6

Normalized(i) == pc[i] \notin {"start", "router", "normalize"}

Slashes(p) == {n \in 1..Len(p) : p[n] = Slash}

SecondSlash(p) ==
    CHOOSE n \in Slashes(p) : Cardinality({m \in Slashes(p) : m < n}) = 1

\* C6: normalizePath drops what precedes the second separator, which for an
\* absolute path is exactly its first segment; a path with fewer than two
\* separators is returned as it is; a non-empty path never becomes empty.
C6_NormalizePath ==
    \A i \in Invocations :
        Normalized(i) =>
            LET p == event[i].Path
                q == reqPath[i]
            IN  /\ p = <<Slash, "stage", Slash, "test">> => q = <<Slash, "test">>
                /\ p = <<Slash, "test">> => q = <<Slash, "test">>
                /\ p = <<Slash>> => q = <<Slash>>
                /\ Cardinality(Slashes(p)) < 2 => q = p
                /\ Cardinality(Slashes(p)) >= 2 => q = SubSeq(p, SecondSlash(p), Len(p))
                /\ p # <<>> => q # <<>>

C6_Witness ==
    \E i \in Invocations :
        /\ Normalized(i)
        /\ event[i].Path = <<Slash, "stage", Slash, "test">>
        /\ reqPath[i] = <<Slash, "test">>

\* ---------------------------------------------------------------------- C7

HeadersCopied(i) == Dispatched(i)

\* C7 as stated: every entry of the event's Headers is in the request under
\* the same key with the same value.
C7_HeadersVerbatim ==
    \A i \in Invocations :
        HeadersCopied(i) =>
            \A k \in DOMAIN event[i].Headers :
                /\ k \in DOMAIN httpReq[i].Header
                /\ httpReq[i].Header[k] = <<event[i].Headers[k]>>

\* The canonical form of each inbound key, written out.
CanonOf(k) ==
    IF k = <<"x", Dash, "a">> THEN <<"X", Dash, "A">> ELSE k

\* C7 as amended: every entry of the event's Headers is in the request under
\* the canonical form of its key; its value is the entry's own unless
\* another entry has the same canonical key, and then it is the value of one
\* of them; the request holds no other header.
C7_HeadersCanonical ==
    \A i \in Invocations :
        HeadersCopied(i) =>
            LET H == event[i].Headers
                R == httpReq[i].Header
            IN  /\ DOMAIN R = { CanonOf(k) : k \in DOMAIN H }
                /\ \A k \in DOMAIN H :
                     \E k2 \in DOMAIN H :
                         CanonOf(k2) = CanonOf(k) /\ R[CanonOf(k)] = <<H[k2]>>

C7_Witness ==
    \E i \in Invocations :
        /\ HeadersCopied(i)
        /\ DOMAIN event[i].Headers = { <<"x", Dash, "a">>, <<"X", Dash, "A">> }
        /\ event[i].Headers[<<"x", Dash, "a">>] = "v1"
        /\ event[i].Headers[<<"X", Dash, "A">>] = "v2"
        /\ httpReq[i].Header[<<"X", Dash, "A">>] = <<"v1">>

\* ---------------------------------------------------------------------- C8

RECURSIVE LastOf(_, _, _)
\* The argument of the last call named op of h, or default.
LastOf(h, op, default) ==
    IF h = <<>> THEN default
    ELSE LET c == h[Len(h)]
         IN  IF c.op = op THEN (IF op = "Write" THEN c.b ELSE c.code)
             ELSE LastOf(SubSeq(h, 1, Len(h) - 1), op, default)

\* C8: after any sequence of Write and WriteHeader calls on a fresh
\* ResponseWriter, Body is the text of the last Write alone (empty if none),
\* StatusCode is the argument of the last WriteHeader (404 if none), and the
\* last Write returned the length of what it was given.
C8_LastCallWins ==
    /\ shim.Body = LastOf(history, "Write", "")
    /\ shim.StatusCode = LastOf(history, "WriteHeader", StatusNotFound)
    /\ ret = Len(LastOf(history, "Write", ""))

C8_Witness ==
    /\ Len(history) >= 3
    /\ history[1] = CallWrite("ab")
    /\ history[2] = CallWrite("cde")
    /\ history[3] = CallWriteHeader(200)
    /\ shim.Body = "cde"
    /\ shim.StatusCode = 200
    /\ ret = 3

\* ---------------------------------------------------------------------- C9

FullCycle == <<"Log-in", "Translate", "Dispatch", "Translate-back", "Log-out", "Return">>
ShortCycle == <<"Log-in", "Translate", "Log-out", "Return">>
FailedCycle == <<"Log-in", "Translate", "Return">>

LoggedResponse(i) ==
    /\ log[i] # <<>>
    /\ log[i][Len(log[i])].kind = "response"
    /\ log[i][Len(log[i])].response = response[i]

\* C9 as stated: every invocation takes its steps in the order Log-in,
\* Translate, Dispatch, Translate-back, Log-out, Return, a failed Translate
\* skipping only Dispatch and Translate-back; a record of the outbound
\* envelope is logged before Return on every path.
C9_LogOutOnEveryPath ==
    \A i \in Invocations :
        /\ IsPrefix(steps[i], FullCycle) \/ IsPrefix(steps[i], ShortCycle)
        /\ Done(i) => LoggedResponse(i)

\* C9 as amended: the steps are taken in that order and the outbound
\* envelope is logged before Return whenever Translate succeeds; when
\* Translate fails the error is logged and the fixed 500 answer is returned
\* at once, with no Log-out record.
C9_LogOutUnlessTranslateFails ==
    \A i \in Invocations :
        /\ IsPrefix(steps[i], FullCycle) \/ steps[i] = FailedCycle
        /\ Done(i) =>
             \/ /\ steps[i] = FullCycle
                /\ Len(log[i]) = 2
                /\ log[i][1].kind = "request"
                /\ LoggedResponse(i)
             \/ /\ steps[i] = FailedCycle
                /\ response[i] = InternalServerError
                /\ Len(log[i]) = 2
                /\ log[i][1].kind = "request"
                /\ log[i][2].kind = "error"

C9_Witness ==
    \E i \in Invocations :
        /\ Done(i)
        /\ steps[i] = FailedCycle
        /\ log[i][Len(log[i])].kind = "error"

\* --------------------------------------------------------------------- C10

Stage == <<Slash, "stage">>

\* C10: for a route path p other than "/" and a method m of that route, the
\* event with path p followed by a slash, with or without a stage prefix, is
\* answered with the same envelope as the event with path p.
C10_TrailingSlashSameEnvelope ==
    \A i, j \in Invocations : \A d \in Documented :
        ( /\ d[2] # <<Slash>>
          /\ Done(i) /\ Done(j)
          /\ event[i].HTTPMethod = d[1] /\ event[j].HTTPMethod = d[1]
          /\ event[i].Path \in {d[2], Stage \o d[2]}
          /\ event[j].Path \in {d[2] \o <<Slash>>, Stage \o d[2] \o <<Slash>>} )
        => response[i] = response[j]

====
